---- MODULE Spec2Model ----
(***************************************************************************)
(* AgriGasha: the image-classification service (MLService) and the app     *)
(* handler that consumes its result (App.handleCapture).                   *)
(*                                                                         *)
(* Probabilities are modelled in thousandths: the integer 800 stands for   *)
(* the value 0.8 read from the output tensor.  Strings are TLA+ strings,   *)
(* and the string operations of the code (toLowerCase, includes) are       *)
(* computed character by character.                                        *)
(***************************************************************************)
EXTENDS Integers, Sequences, FiniteSets, TLC

(* ----------------------------- bounds ---------------------------------- *)

\* Number of service calls (loadModel / classifyImage / handleCapture) issued
\* during the process lifetime.
NCalls == 2

\* Longest output vector the forward pass produces.
MaxLen == 5

\* Values an output tensor may hold, in thousandths: a negative value, zero,
\* probabilities in (0,1] and a value above 1.
ProbValues == {-300, 0, 50, 100, 800, 1255}

(* ------------------------ constants of the code ------------------------ *)

labels == <<"Coffee Rust", "Maize Streak", "Wheat Rust", "Healthy">>

mockDiseases ==
  << [id |-> "coffee_rust",  crop |-> "Coffee", name_en |-> "Coffee Leaf Rust"],
     [id |-> "maize_streak", crop |-> "Maize",  name_en |-> "Maize Streak Virus"],
     [id |-> "wheat_rust",   crop |-> "Wheat",  name_en |-> "Wheat Rust"] >>

\* The value `result.confidence || 98` substitutes for a falsy confidence.
DefaultConfidence == 98

\* The result of the catch block of classifyImage.
Fallback == [label |-> "Healthy", confidence |-> 0]

\* No value (null / not yet produced).
Null == [label |-> "", confidence |-> -1]

(* ------------------------- string operations --------------------------- *)

UpperCaseLetters == "ABCDEFGHIJKLMNOPQRSTUVWXYZ"
LowerCaseLetters == "abcdefghijklmnopqrstuvwxyz"

LowerChar(c) ==
  IF \E i \in 1..Len(UpperCaseLetters) : SubSeq(UpperCaseLetters, i, i) = c
  THEN LET i == CHOOSE j \in 1..Len(UpperCaseLetters) :
                   SubSeq(UpperCaseLetters, j, j) = c
       IN  SubSeq(LowerCaseLetters, i, i)
  ELSE c

RECURSIVE toLowerCase(_)
toLowerCase(s) ==
  IF Len(s) = 0 THEN ""
  ELSE LowerChar(SubSeq(s, 1, 1)) \o toLowerCase(SubSeq(s, 2, Len(s)))

\* String.prototype.includes: sub occurs in s as a contiguous substring.
includes(s, sub) ==
  \E i \in 1..(Len(s) - Len(sub) + 1) : SubSeq(s, i, i + Len(sub) - 1) = sub

(* --------------------- the inference of classifyImage ------------------ *)

\* MathRound100 as a bug would have it: the fraction is cut off
\* (Math.trunc).
MathTrunc100(maxProb) ==
  IF maxProb >= 0 THEN maxProb \div 10 ELSE -((-maxProb) \div 10)

\* Math.round(maxProb * 100) for maxProb given in thousandths: the nearest
\* integer, halves rounded up.
MathRound100(maxProb) == (maxProb + 5) \div 10

\* ScanMax as a bug would have it: the comparison of line 86 is >=, so the
\* last of several equal maxima survives.
RECURSIVE ScanMaxLast(_, _, _, _)
ScanMaxLast(probabilities, i, maxProb, maxIndex) ==
  IF i >= Len(probabilities)
  THEN [maxProb |-> maxProb, maxIndex |-> maxIndex]
  ELSE IF probabilities[i + 1] >= maxProb
       THEN ScanMaxLast(probabilities, i + 1, probabilities[i + 1], i)
       ELSE ScanMaxLast(probabilities, i + 1, maxProb, maxIndex)

\* The scan of lines 83-90; i is the 0-based loop index.
RECURSIVE ScanMax(_, _, _, _)
ScanMax(probabilities, i, maxProb, maxIndex) ==
  IF i >= Len(probabilities)
  THEN [maxProb |-> maxProb, maxIndex |-> maxIndex]
  ELSE IF probabilities[i + 1] > maxProb
       THEN ScanMax(probabilities, i + 1, probabilities[i + 1], i)
       ELSE ScanMax(probabilities, i + 1, maxProb, maxIndex)

\* LabelAt as a bug would have it: the index is not wrapped, and an index
\* past the table yields undefined.
LabelAtNoWrap(maxIndex) ==
  IF maxIndex < Len(labels) THEN labels[maxIndex + 1] ELSE "undefined"

\* Line 93: this.labels[maxIndex % this.labels.length] (labels is 1-based
\* here).
LabelAt(maxIndex) == labels[(maxIndex % Len(labels)) + 1]

\* Lines 83-98: the result computed from the output vector.
Infer(probabilities) ==
  LET m == ScanMax(probabilities, 0, 0, 0)
  IN  [label      |-> LabelAt(m.maxIndex),
       confidence |-> MathRound100(m.maxProb)]

\* Outcomes of the external steps of the try block of lines 79-101.
InferOutcomes == {"ok", "predictThrows", "dataRejects", "disposeThrows"}

\* Lines 79-106: what classifyImage returns once the input tensor exists.
\* A throw of predict, of data() or of dispose (which replaces the pending
\* return) reaches the catch block.
InferenceStage(probabilities, ext) ==
  IF ext = "ok" THEN Infer(probabilities) ELSE Fallback


(* ------------------------------- state --------------------------------- *)

VARIABLES
  model,          \* MLService.model: 0 is null, c > 0 the handle built by call c
  tflite,         \* window.tflite is defined
  tf,             \* window.tf is defined
  calls,          \* the calls issued so far, by call number
  serial,         \* the caller never overlaps two calls
  diagnosis,      \* App state: id of the disease shown, "null" when none
  confidence,     \* App state: confidence shown
  isDiagnosing,   \* App state
  screen,         \* App state
  history,        \* App state: history items, newest first
  probabilities   \* SpecInfer: the output vector call 1 is about to read

appVars   == <<diagnosis, confidence, isDiagnosing, screen, history>>
vars == <<model, tflite, tf, calls, serial, diagnosis, confidence,
          isDiagnosing, screen, history, probabilities>>

Calls == 1..NCalls

\* All output vectors of length 0..MaxLen.
Vectors == UNION {[1..n -> ProbValues] : n \in 0..MaxLen}

\* Output vectors the forward pass returns in the service-level
\* specification: an empty one, the vector of the documented example, one
\* whose maximum is the "Healthy" class and one with no positive value.
SampleOutputs == { <<>>, <<100, 50, 800, 50>>, <<50, 50, 50, 800>>, <<-300, 0>> }

\* A call that has not been issued.
NoCall ==
  [op |-> "none", pc |-> "idle", result |-> Null, handle |-> 0,
   threw |-> FALSE, cause |-> "none", tensor |-> "none",
   sawLoaded |-> FALSE, waits |-> 0, fetches |-> 0, constructs |-> 0,
   stores |-> 0, decodes |-> 0, predicts |-> 0, predictArg |-> "none",
   disposes |-> 0, disposedBy |-> 0]

InFlight(c) == calls[c].op # "none" /\ calls[c].pc # "done"

\* Calls are numbered in the order they are issued; a serial caller issues
\* a call only when the previous ones have completed.
CanIssue(c) ==
  /\ calls[c].op = "none"
  /\ \A d \in Calls : d < c => calls[d].op # "none"
  /\ serial => \A d \in Calls : ~InFlight(d)

(* ------------------------------ loadModel ------------------------------ *)

\* Lines 31-34: setWasmPath, then the fetch of the model artifact starts.
BeginFetch(r) == [r EXCEPT !.pc = "fetch", !.fetches = @ + 1]

\* Lines 21-34, run synchronously by the caller with the handle unpopulated:
\* with the runtime present the fetch starts, otherwise the call waits.
LoadEntry(r) ==
  IF tflite THEN BeginFetch(r)
  ELSE [r EXCEPT !.pc = "wait", !.waits = @ + 1]

\* Catch as a bug would have it: the error is logged and thrown again.
CatchRethrows(r, cause) ==
  [r EXCEPT !.pc = "returned", !.threw = TRUE, !.cause = cause]

\* Catch as a bug would have it: the fallback carries the first label.
CatchFirstLabel(r, cause) ==
  [r EXCEPT !.pc = "returned",
            !.result = [label |-> labels[1], confidence |-> 0],
            !.cause = cause]

\* Lines 102-106: the catch block of classifyImage.  The value goes back to
\* handleCapture, which is suspended at line 97.
Catch(r, cause) ==
  [r EXCEPT !.pc = "returned", !.result = Fallback, !.cause = cause]

\* LoadThrow as a bug would have it: the catch block of loadModel logs the
\* error and does not throw it again, so loadModel resolves to undefined.
LoadThrowSwallows(r, cause) ==
  IF r.op = "loadModel"
  THEN [r EXCEPT !.pc = "done", !.cause = cause]
  ELSE Catch(r, cause)

\* LoadThrow as a bug would have it: classifyImage ignores the rejection of
\* line 56 and goes on to the image.
LoadThrowIgnored(r, cause) ==
  IF r.op = "loadModel"
  THEN [r EXCEPT !.pc = "done", !.threw = TRUE, !.cause = cause]
  ELSE [r EXCEPT !.pc = "decode", !.decodes = @ + 1, !.cause = cause]

\* Lines 43-47: loadModel rethrows.  A direct caller sees the rejection;
\* inside classifyImage the rejection of line 56 reaches the catch block.
LoadThrow(r, cause) ==
  IF r.op = "loadModel"
  THEN [r EXCEPT !.pc = "done", !.threw = TRUE, !.cause = cause]
  ELSE Catch(r, cause)

\* Lines 59-64: the image element is created and the call awaits its load.
AwaitImage(r) == [r EXCEPT !.pc = "decode", !.decodes = @ + 1]

\* CallLoadModel as a bug would have it: line 21 is missing, so the cached
\* handle is never consulted.
CallLoadModelNoCache(c) ==
  /\ CanIssue(c)
  /\ calls' = [calls EXCEPT ![c] =
       LoadEntry([NoCall EXCEPT !.op = "loadModel",
                                !.sawLoaded = (model # 0)])]
  /\ UNCHANGED <<model, tflite, tf, serial, appVars, probabilities>>

\* CallLoadModel as a bug would have it: line 21 reads `return;`, so a call
\* in state Loaded returns no handle.
CallLoadModelReturnsNothing(c) ==
  /\ CanIssue(c)
  /\ calls' = [calls EXCEPT ![c] =
       IF model # 0
       THEN [NoCall EXCEPT !.op = "loadModel", !.pc = "done",
                           !.sawLoaded = TRUE]
       ELSE LoadEntry([NoCall EXCEPT !.op = "loadModel"])]
  /\ UNCHANGED <<model, tflite, tf, serial, appVars, probabilities>>

\* loadModel() called directly (line 20-21 onwards).
CallLoadModel(c) ==
  /\ CanIssue(c)
  /\ calls' = [calls EXCEPT ![c] =
       IF model # 0
       THEN [NoCall EXCEPT !.op = "loadModel", !.pc = "done",
                           !.handle = model, !.sawLoaded = TRUE]
       ELSE LoadEntry([NoCall EXCEPT !.op = "loadModel"])]
  /\ UNCHANGED <<model, tflite, tf, serial, appVars, probabilities>>

\* RetryCheck as a bug would have it: the call polls until the runtime
\* appears (while (!window.tflite) await ...), without giving up.
RetryCheckPolls(c) ==
  /\ calls[c].pc = "wait"
  /\ calls' = [calls EXCEPT ![c] = IF tflite THEN BeginFetch(@) ELSE @]
  /\ UNCHANGED <<model, tflite, tf, serial, appVars, probabilities>>

\* RetryCheck as a bug would have it: the wait is in a loop that gives up
\* after a second wait.
RetryCheckWaitsAgain(c) ==
  /\ calls[c].pc = "wait"
  /\ calls' = [calls EXCEPT ![c] =
       IF tflite THEN BeginFetch(@)
       ELSE IF @.waits < 2 THEN [@ EXCEPT !.waits = @ + 1]
       ELSE LoadThrow(@, "runtime")]
  /\ UNCHANGED <<model, tflite, tf, serial, appVars, probabilities>>

\* Lines 27-28: the 500 ms timer fires and the runtime is checked again.
RetryCheck(c) ==
  /\ calls[c].pc = "wait"
  /\ calls' = [calls EXCEPT ![c] =
       IF tflite THEN BeginFetch(@) ELSE LoadThrow(@, "runtime")]
  /\ UNCHANGED <<model, tflite, tf, serial, appVars, probabilities>>

\* Lines 34-35: the fetch settles: a response that is ok, a response that
\* is not, or a network error.
FetchSettles(c) ==
  /\ calls[c].pc = "fetch"
  /\ \E response \in {"ok", "notOk", "networkError"} :
       calls' = [calls EXCEPT ![c] =
         IF response = "ok" THEN [@ EXCEPT !.pc = "buffer"]
         ELSE LoadThrow(@, "fetch")]
  /\ UNCHANGED <<model, tflite, tf, serial, appVars, probabilities>>

\* Lines 37-40: the body is read; then loadTFLiteModel is invoked.
BufferSettles(c) ==
  /\ calls[c].pc = "buffer"
  /\ \E ok \in BOOLEAN :
       calls' = [calls EXCEPT ![c] =
         IF ok THEN [@ EXCEPT !.pc = "construct", !.constructs = @ + 1]
         ELSE LoadThrow(@, "fetch")]
  /\ UNCHANGED <<model, tflite, tf, serial, appVars, probabilities>>

\* The handle line 40 stores when the construction by call c succeeds.
StoredHandle(c) == c

\* ConstructSettles as a bug would have it: a failed construction clears
\* the cached handle.
ConstructSettlesClears(c) ==
  /\ calls[c].pc = "construct"
  /\ \E ok \in BOOLEAN :
       IF ok
       THEN /\ model' = StoredHandle(c)
            /\ calls' = [calls EXCEPT ![c] =
                 IF @.op = "loadModel"
                 THEN [@ EXCEPT !.pc = "done", !.handle = StoredHandle(c),
                                !.stores = @ + 1]
                 ELSE AwaitImage([@ EXCEPT !.stores = @ + 1])]
       ELSE /\ model' = 0
            /\ calls' = [calls EXCEPT ![c] = LoadThrow(@, "construct")]
  /\ UNCHANGED <<tflite, tf, serial, appVars, probabilities>>

\* ConstructSettles as a bug would have it: the field is assigned the
\* pending promise, so it is populated even when the construction fails.
ConstructSettlesStoresAlways(c) ==
  /\ calls[c].pc = "construct"
  /\ \E ok \in BOOLEAN :
       /\ model' = StoredHandle(c)
       /\ calls' = [calls EXCEPT ![c] =
            IF ~ok THEN LoadThrow(@, "construct")
            ELSE IF @.op = "loadModel"
                 THEN [@ EXCEPT !.pc = "done", !.handle = StoredHandle(c),
                                !.stores = @ + 1]
                 ELSE AwaitImage([@ EXCEPT !.stores = @ + 1])]
  /\ UNCHANGED <<tflite, tf, serial, appVars, probabilities>>

\* Lines 40-42: the construction settles; on success the handle is stored,
\* whatever the field holds by then.  classifyImage goes on to the image.
ConstructSettles(c) ==
  /\ calls[c].pc = "construct"
  /\ \E ok \in BOOLEAN :
       IF ok
       THEN /\ model' = StoredHandle(c)
            /\ calls' = [calls EXCEPT ![c] =
                 IF @.op = "loadModel"
                 THEN [@ EXCEPT !.pc = "done", !.handle = StoredHandle(c),
                                !.stores = @ + 1]
                 ELSE AwaitImage([@ EXCEPT !.stores = @ + 1])]
       ELSE /\ model' = model
            /\ calls' = [calls EXCEPT ![c] = LoadThrow(@, "construct")]
  /\ UNCHANGED <<tflite, tf, serial, appVars, probabilities>>

(* ---------------------------- classifyImage ---------------------------- *)

\* ClassifyEntry as a bug would have it: line 55 is missing and loadModel
\* does not consult the cached handle.
ClassifyEntryAlwaysLoads(r) ==
  LoadEntry([r EXCEPT !.sawLoaded = (model # 0)])

\* Lines 55-64, run synchronously by the caller: with the handle populated
\* the call goes straight to the image, otherwise through loadModel.
ClassifyEntry(r) ==
  IF model # 0 THEN AwaitImage([r EXCEPT !.sawLoaded = TRUE])
  ELSE LoadEntry(r)

\* TensorTarget as a bug would have it: the tensor is kept in one slot
\* shared by all calls (a static field), which an overlapping call may still
\* occupy.
TensorTargetShared(c) ==
  IF \E d \in Calls : d # c /\ calls[d].tensor = "live"
  THEN CHOOSE d \in Calls : d # c /\ calls[d].tensor = "live"
  ELSE c

\* The call whose input tensor the binding `tensor` of call c denotes: the
\* binding is a const local to the call (line 70), so it is the tensor the
\* call created itself.
TensorTarget(c) == c

\* Dispose as a bug would have it: the finally block is missing and the
\* tensor is never released.
DisposeSkipped(cs, c) == cs

\* Dispose as a bug would have it: the tensor is released in the try block
\* and again in the finally block.
DisposeTwice(cs, c) ==
  [cs EXCEPT ![TensorTarget(c)].tensor = "disposed",
             ![TensorTarget(c)].disposes = @ + 2,
             ![TensorTarget(c)].disposedBy = c]

\* Line 100: tensor.dispose(), run by the finally block of call c, in the
\* state cs of the calls.
Dispose(cs, c) ==
  [cs EXCEPT ![TensorTarget(c)].tensor = "disposed",
             ![TensorTarget(c)].disposes = @ + 1,
             ![TensorTarget(c)].disposedBy = c]

\* Lines 70-80: tf.tidy has built the input tensor of call c, and predict is
\* invoked on it.
CreateAndPredict(c) ==
  LET created == [calls EXCEPT ![c].tensor = "live"]
  IN  [created EXCEPT ![c].predicts = @ + 1,
                      ![c].predictArg = created[TensorTarget(c)].tensor]

\* Lines 61-81: the image settles, with an error or with a load.  On load
\* the call checks window.tf, builds the input tensor (tf.tidy may throw)
\* and invokes predict, all in one turn; a throw of predict runs the
\* finally block (dispose) on its way to the catch block.
ImageSettles(c) ==
  /\ calls[c].pc = "decode"
  /\ \E outcome \in {"onerror", "tidyThrows", "predictThrows", "ok"} :
       calls' =
         IF outcome = "onerror"
         THEN [calls EXCEPT ![c] = Catch(@, "decode")]
         ELSE IF ~tf THEN [calls EXCEPT ![c] = Catch(@, "tfMissing")]
         ELSE IF outcome = "tidyThrows"
         THEN [calls EXCEPT ![c] = Catch(@, "preprocess")]
         ELSE IF outcome = "predictThrows"
         THEN [Dispose(CreateAndPredict(c), c) EXCEPT
                 ![c] = Catch(@, "predictThrows")]
         ELSE [CreateAndPredict(c) EXCEPT ![c].pc = "data"]
  /\ UNCHANGED <<model, tflite, tf, serial, appVars, probabilities>>

\* Lines 81-106: the read of the output tensor settles with outcome e and,
\* when it resolves, vector v; the result is computed, the finally block
\* disposes the input tensor, and the call returns.
OutputSettlesWith(c, v, e) ==
  /\ calls[c].pc = "data"
  /\ calls' = [Dispose(calls, c) EXCEPT ![c] =
       [@ EXCEPT !.pc = "returned",
                 !.result = InferenceStage(v, e),
                 !.cause = IF e = "ok" THEN "none" ELSE e]]
  /\ UNCHANGED <<model, tflite, tf, serial, appVars, probabilities>>

OutputSettles(c) ==
  \E v \in SampleOutputs, e \in InferOutcomes \ {"predictThrows"} :
    OutputSettlesWith(c, v, e)

(* ----------------------------- handleCapture --------------------------- *)

\* Line 101: mockDiseases.find(...): the index of the first disease whose
\* lower-cased English name includes the lower-cased label; 0 if none.
FindDisease(label) ==
  LET hits == {i \in 1..Len(mockDiseases) :
                 includes(toLowerCase(mockDiseases[i].name_en),
                          toLowerCase(label))}
  IN  IF hits = {} THEN 0
      ELSE CHOOSE i \in hits : \A j \in hits : i <= j

\* FindDisease for each label of the label table, computed once.
DiseaseOfLabel ==
  [l \in {labels[i] : i \in 1..Len(labels)} |-> FindDisease(l)]

\* Line 109: result.confidence || 98.
ShownConfidence(c) == IF c = 0 THEN DefaultConfidence ELSE c

\* Lines 90-97: the handler sets the screen and calls classifyImage.
CallHandleCapture(c) ==
  /\ CanIssue(c)
  /\ isDiagnosing' = TRUE
  /\ screen' = "result"
  /\ calls' = [calls EXCEPT ![c] =
       ClassifyEntry([NoCall EXCEPT !.op = "handleCapture"])]
  /\ UNCHANGED <<model, tflite, tf, serial, diagnosis, confidence, history,
                 probabilities>>

\* Lines 97-121: classifyImage has returned; the handler maps the label to
\* a disease (a random one when none matches), shows it and records it.
HandleCaptureResume(c) ==
  /\ calls[c].pc = "returned"
  /\ IF calls[c].threw
     THEN \* lines 127-133: the catch block of the handler
          /\ isDiagnosing' = FALSE
          /\ diagnosis' = mockDiseases[1].id
          /\ UNCHANGED <<confidence, history>>
     ELSE LET result == calls[c].result
              found  == DiseaseOfLabel[result.label]
          IN  \E random \in 1..Len(mockDiseases) :
                LET disease ==
                      mockDiseases[IF found # 0 THEN found ELSE random]
                IN  /\ diagnosis' = disease.id
                    /\ confidence' = ShownConfidence(result.confidence)
                    /\ isDiagnosing' = FALSE
                    /\ history' = << [id |-> c, diseaseId |-> disease.id,
                                      crop |-> disease.crop,
                                      confidence |-> result.confidence] >>
                                  \o history
  /\ calls' = [calls EXCEPT ![c].pc = "done"]
  /\ UNCHANGED <<model, tflite, tf, serial, screen, probabilities>>

(* ------------------------------ environment ---------------------------- *)

\* The CDN script defining window.tflite finishes loading.
TfliteScriptLoads ==
  /\ ~tflite
  /\ tflite' = TRUE
  /\ UNCHANGED <<model, tf, calls, serial, appVars, probabilities>>

\* The CDN script defining window.tf finishes loading.
TfScriptLoads ==
  /\ ~tf
  /\ tf' = TRUE
  /\ UNCHANGED <<model, tflite, calls, serial, appVars, probabilities>>

(* ---------------------------- specifications --------------------------- *)

Init ==
  /\ model = 0
  /\ tflite \in BOOLEAN
  /\ tf \in BOOLEAN
  /\ calls = [c \in Calls |-> NoCall]
  /\ serial \in BOOLEAN
  /\ diagnosis = "null"
  /\ confidence = 0
  /\ isDiagnosing = FALSE
  /\ screen = "home"
  /\ history = << >>
  /\ probabilities = << >>

Next ==
  \/ \E c \in Calls : CallLoadModel(c)
  \/ \E c \in Calls : RetryCheck(c)
  \/ \E c \in Calls : FetchSettles(c)
  \/ \E c \in Calls : BufferSettles(c)
  \/ \E c \in Calls : ConstructSettles(c)
  \/ \E c \in Calls : CallHandleCapture(c)
  \/ \E c \in Calls : ImageSettles(c)
  \/ \E c \in Calls : OutputSettles(c)
  \/ \E c \in Calls : HandleCaptureResume(c)
  \/ TfliteScriptLoads
  \/ TfScriptLoads

\* The service and the app under every schedule of calls and outcomes.
Spec == Init /\ [][Next]_vars

\* The service alone, with the external steps it suspends on eventually
\* settling: the timer of line 27, the fetch, the read of its body, the
\* construction of the model, the image and the read of the output tensor
\* each complete or fail once pending.  Calls may overlap; what handleCapture
\* does with the value returned is left out.
InitLive == Init /\ ~serial

NextLive ==
  \/ \E c \in Calls : CallLoadModel(c)
  \/ \E c \in Calls : RetryCheck(c)
  \/ \E c \in Calls : FetchSettles(c)
  \/ \E c \in Calls : BufferSettles(c)
  \/ \E c \in Calls : ConstructSettles(c)
  \/ \E c \in Calls : CallHandleCapture(c)
  \/ \E c \in Calls : ImageSettles(c)
  \/ \E c \in Calls : OutputSettles(c)
  \/ TfliteScriptLoads
  \/ TfScriptLoads

ExternalStepsSettle ==
  \A c \in Calls :
    /\ WF_vars(RetryCheck(c))
    /\ WF_vars(FetchSettles(c))
    /\ WF_vars(BufferSettles(c))
    /\ WF_vars(ConstructSettles(c))
    /\ WF_vars(ImageSettles(c))
    /\ WF_vars(OutputSettles(c))

SpecLive == InitLive /\ [][NextLive]_vars /\ ExternalStepsSettle

\* The inference stage of classifyImage alone (lines 81-106), for every
\* output vector up to MaxLen: call 1, made by handleCapture, has loaded the
\* model, built its input tensor and awaits the output of predict.
InitInfer ==
  /\ model = StoredHandle(1)
  /\ tflite = TRUE
  /\ tf = TRUE
  /\ calls = [c \in Calls |->
       IF c = 1
       THEN [NoCall EXCEPT !.op = "handleCapture", !.pc = "data",
                           !.tensor = "live", !.fetches = 1,
                           !.constructs = 1, !.stores = 1,
                           !.decodes = 1, !.predicts = 1,
                           !.predictArg = "live"]
       ELSE NoCall]
  /\ serial = TRUE
  /\ diagnosis = "null"
  /\ confidence = 0
  /\ isDiagnosing = TRUE
  /\ screen = "result"
  /\ history = << >>
  /\ probabilities \in Vectors

InferenceReturns ==
  \E e \in InferOutcomes \ {"predictThrows"} :
    OutputSettlesWith(1, probabilities, e)

NextInfer == InferenceReturns

SpecInfer == InitInfer /\ [][NextInfer]_vars

(* -------------------------------- claims ------------------------------- *)

\* A classifyImage call (made by handleCapture) that has returned.
Returned(c) ==
  calls[c].op = "handleCapture" /\ calls[c].pc \in {"returned", "done"}

\* The failure kinds classifyImage can meet.
LoadFailures == {"runtime", "fetch", "construct"}
Failures ==
  LoadFailures \cup {"decode", "tfMissing", "preprocess", "predictThrows",
                     "dataRejects", "disposeThrows"}

\* C1: classifyImage never raises to its caller: whatever the state of the
\* model handle and of the runtime, and whatever the outcome of the external
\* steps, a call that has completed has completed with a result value and
\* not with a rejection.
C1_NeverRaises ==
  \A c \in Calls :
    calls[c].op = "handleCapture" =>
      /\ ~calls[c].threw
      /\ Returned(c) => calls[c].result # Null

\* C1 witness: a call has returned after its forward pass succeeded and the
\* disposal of its tensor threw, while another has returned after its load
\* failed.
C1_Witness ==
  \E c, d \in Calls :
    /\ Returned(c) /\ calls[c].cause = "disposeThrows"
    /\ Returned(d) /\ calls[d].cause \in LoadFailures

\* C2: when a model load failure, an image decode failure, an unavailable
\* runtime or a failure of preprocessing or of the forward pass occurs inside
\* classifyImage, the call returns exactly {label: "Healthy", confidence: 0}.
C2_FailureGivesFallback ==
  \A c \in Calls :
    (Returned(c) /\ calls[c].cause \in Failures) =>
      calls[c].result = [label |-> "Healthy", confidence |-> 0]

\* C2 witness: classifyImage was called with no model loaded and the runtime
\* absent, waited, found the runtime still absent, and has returned.
C2_Witness ==
  \E c \in Calls :
    /\ Returned(c) /\ calls[c].cause = "runtime" /\ calls[c].waits = 1
    /\ model = 0 /\ ~tflite /\ ~tf

\* C3: when the forward pass produces an empty output vector, classifyImage
\* returns the safe fallback {label: "Healthy", confidence: 0}.
C3_EmptyOutputGivesFallback ==
  (Returned(1) /\ calls[1].cause = "none" /\ Len(probabilities) = 0) =>
    calls[1].result = [label |-> "Healthy", confidence |-> 0]

\* Ids of the diseases of the disease table.
DiseaseIds == {mockDiseases[i].id : i \in 1..Len(mockDiseases)}

\* C4: when classifyImage returns the fallback {Healthy, 0}, the step in
\* which handleCapture completes neither shows a disease of the disease
\* table with a positive confidence nor adds an entry to the history.
C4_FailureNotDiagnosed ==
  [][\A c \in Calls :
       ( /\ calls[c].pc = "returned"
         /\ calls'[c].pc = "done"
         /\ calls[c].result = [label |-> "Healthy", confidence |-> 0] )
       => /\ ~(diagnosis' \in DiseaseIds /\ confidence' > 0)
          /\ history' = history]_vars

\* Sum of f[c] over the calls 1..n.
RECURSIVE SumTo(_, _)
SumTo(f, n) == IF n = 0 THEN 0 ELSE f[n] + SumTo(f, n - 1)

\* Model loads attempted so far: fetches of the artifact and constructions.
TotalFetches    == SumTo([c \in Calls |-> calls[c].fetches], NCalls)
TotalConstructs == SumTo([c \in Calls |-> calls[c].constructs], NCalls)
\* Handles stored so far by line 40.
TotalStores     == SumTo([c \in Calls |-> calls[c].stores], NCalls)

\* C5 as stated: over any sequence and interleaving of loadModel and
\* classifyImage calls, at most one model load (fetch + construction) is
\* ever attempted.
C5_AtMostOneLoadAttempt == TotalFetches <= 1 /\ TotalConstructs <= 1

\* C5 as amended: every call attempts at most one load (one fetch, then at
\* most one construction), and a call that found the handle populated when
\* it checked it attempts none.
C5_LoadOnlyByCallsThatSawUnloaded ==
  \A c \in Calls :
    /\ calls[c].fetches <= 1
    /\ calls[c].constructs <= calls[c].fetches
    /\ calls[c].sawLoaded => calls[c].fetches = 0 /\ calls[c].constructs = 0

\* C5 witness: the load of one call failed at the fetch, and a later call
\* has attempted a second load, up to the construction of the model.
C5_Witness ==
  \E c, d \in Calls :
    /\ c < d
    /\ calls[c].cause = "fetch" /\ calls[c].fetches = 1
    /\ calls[d].fetches = 1 /\ calls[d].constructs = 1

\* Fetches and constructions made by classifyImage calls.
ClassifyFetches ==
  SumTo([c \in Calls |-> IF calls[c].op = "handleCapture"
                         THEN calls[c].fetches ELSE 0], NCalls)

\* C6 as stated: when classifyImage calls are made one after the other, the
\* model load is performed at most once over all of them.
C6_SequentialCallsLoadOnce == serial => ClassifyFetches <= 1

\* C6 as amended: when calls are made one after the other, at most one load
\* stores a handle, and a classifyImage call made after a call whose load
\* succeeded performs no fetch and no construction.
C6_SequentialCallsReuseHandle ==
  serial =>
    /\ TotalStores <= 1
    /\ \A c, d \in Calls :
         (d < c /\ calls[d].stores = 1 /\ calls[c].op = "handleCapture") =>
           calls[c].fetches = 0 /\ calls[c].constructs = 0

\* C6 witness: two classifyImage calls in sequence, the first loaded the
\* model and the second has returned a result of its forward pass.
C6_Witness ==
  /\ serial
  /\ \E c, d \in Calls :
       /\ d < c
       /\ calls[d].op = "handleCapture" /\ calls[d].stores = 1
       /\ Returned(c) /\ calls[c].cause = "none" /\ calls[c].sawLoaded

\* C7 as stated: once a load has succeeded, the cached handle is never
\* replaced by the handle of another load.
C7_HandleNeverReplaced == [][model # 0 => model' = model]_vars

\* C7 as amended: once a load has succeeded the handle stays populated; it
\* is never replaced when calls are made one after the other, and when calls
\* overlap it is replaced only by the handle of a load whose call found the
\* handle unpopulated when it checked it.
C7_HandleReplacedOnlyByOverlappingLoad ==
  [][model # 0 =>
       /\ model' # 0
       /\ serial => model' = model
       /\ model' # model =>
            \E c \in Calls :
              /\ model' = StoredHandle(c)
              /\ calls[c].pc = "construct"
              /\ ~calls[c].sawLoaded]_vars

\* C7 witness: two overlapping loads have both stored a handle, and the
\* cached one is the second.
C7_Witness ==
  \E c, d \in Calls :
    /\ c # d
    /\ calls[c].stores = 1 /\ calls[d].stores = 1
    /\ model = StoredHandle(d)

\* The largest value of a non-empty vector.
MaxOf(v) == CHOOSE m \in {v[i] : i \in 1..Len(v)} : \A i \in 1..Len(v) : v[i] <= m

\* The lowest 0-based index of a non-empty vector holding its largest value.
ArgMaxLowest(v) ==
  CHOOSE i \in 0..(Len(v) - 1) :
    /\ v[i + 1] = MaxOf(v)
    /\ \A j \in 0..(i - 1) : v[j + 1] # MaxOf(v)

\* round(100 * p) for p in thousandths: the integer n with
\* n - 1/2 <= 100 * p < n + 1/2.
Round100(p) == CHOOSE n \in -1000..1000 : 10 * n - 5 <= p /\ p < 10 * n + 5

\* Call 1 has returned the result of a forward pass that succeeded.
Inferred == Returned(1) /\ calls[1].cause = "none"

\* C8 as stated: for every (non-empty) output vector of the forward pass,
\* the confidence returned equals round(100 * max(vector)).
C8_ConfidenceIsRoundedMax ==
  (Inferred /\ Len(probabilities) > 0) =>
    calls[1].result.confidence = Round100(MaxOf(probabilities))

\* C8 as amended: for every output vector, the confidence returned equals
\* round(100 * m), m being the largest value of the vector if that value is
\* positive and 0 otherwise (no value, or none above 0).
C8_ConfidenceIsRoundedMaxOrZero ==
  Inferred =>
    calls[1].result.confidence =
      IF Len(probabilities) > 0 /\ MaxOf(probabilities) > 0
      THEN Round100(MaxOf(probabilities))
      ELSE 0

\* C8 witness: the forward pass returned a vector whose largest value, 1.255,
\* is rounded up to the confidence 126.
C8_Witness ==
  /\ Inferred
  /\ Len(probabilities) > 1
  /\ MaxOf(probabilities) = 1255
  /\ calls[1].result.confidence = 126

\* C9 as stated: for every (non-empty) output vector, the label returned is
\* labels[argmax(vector) % 4], argmax being the lowest index holding the
\* maximum.
C9_LabelIsArgMax ==
  (Inferred /\ Len(probabilities) > 0) =>
    calls[1].result.label =
      labels[(ArgMaxLowest(probabilities) % 4) + 1]

\* C9 as amended: the label returned is labels[i % 4], i being the lowest
\* index holding the maximum if that maximum is positive, and 0 otherwise
\* (empty vector, or no value above 0).
C9_LabelIsArgMaxOfPositive ==
  Inferred =>
    calls[1].result.label =
      IF Len(probabilities) > 0 /\ MaxOf(probabilities) > 0
      THEN labels[(ArgMaxLowest(probabilities) % 4) + 1]
      ELSE labels[1]

\* C9 witness: the documented example, [0.1, 0.05, 0.8, 0.05], has returned
\* {"Wheat Rust", 80}.
C9_Witness ==
  /\ Inferred
  /\ probabilities = <<100, 50, 800, 50>>
  /\ calls[1].result = [label |-> "Wheat Rust", confidence |-> 80]

\* C10: every result classifyImage returns, on the success path and on the
\* fallback path, has a label of the label table and an integer confidence
\* in 0..100, for output vectors whose values lie in [0,1].
C10_ResultIsValid ==
  ( /\ Returned(1)
    /\ \A i \in 1..Len(probabilities) :
         0 <= probabilities[i] /\ probabilities[i] <= 1000 )
  => /\ calls[1].result.label \in {labels[i] : i \in 1..4}
     /\ calls[1].result.confidence \in 0..100

\* C10 witness: a vector of five probabilities whose maximum is the fifth has
\* returned the first label, the index wrapping around the table.
C10_Witness ==
  /\ Inferred
  /\ probabilities = <<0, 50, 100, 50, 800>>
  /\ calls[1].result = [label |-> "Coffee Rust", confidence |-> 80]

\* C11: every input tensor a classifyImage call creates is released exactly
\* once before the call returns, when the forward pass succeeds and when
\* predict or the read of the output fails; until then it is live.
C11_TensorReleasedOnce ==
  \A c \in Calls :
    /\ (Returned(c) /\ calls[c].predicts > 0) =>
         calls[c].tensor = "disposed" /\ calls[c].disposes = 1
    /\ calls[c].pc = "data" =>
         calls[c].tensor = "live" /\ calls[c].disposes = 0

\* C11 witness: one call has returned the result of its forward pass and
\* another has returned after predict threw, each with its tensor released.
C11_Witness ==
  \E c, d \in Calls :
    /\ Returned(c) /\ calls[c].cause = "none" /\ calls[c].disposes = 1
    /\ Returned(d) /\ calls[d].cause = "predictThrows"
    /\ calls[d].disposes = 1

\* Release calls made so far, and classifyImage calls that have returned.
TotalDisposes == SumTo([c \in Calls |-> calls[c].disposes], NCalls)
ReturnedCalls == {c \in Calls : Returned(c)}

\* C12 as stated: whatever paths the classifyImage calls took, the number
\* of tensor release calls equals the number of classifyImage calls.
C12_ReleasesEqualCalls ==
  (\A c \in Calls : ~InFlight(c) \/ Returned(c)) =>
    TotalDisposes = Cardinality(ReturnedCalls)

\* C12 as amended: the number of release calls equals the number of calls
\* that built an input tensor, that is, of the returned calls that did not
\* fail before the forward pass (load, decode, missing runtime,
\* preprocessing).
C12_ReleasesEqualTensorsBuilt ==
  TotalDisposes =
    Cardinality({c \in ReturnedCalls :
                   calls[c].cause \in {"none", "predictThrows",
                                       "dataRejects", "disposeThrows"}})

\* C12 witness: two calls have returned, one after a decode failure and one
\* with the result of its forward pass, and one release call was made.
C12_Witness ==
  /\ TotalDisposes = 1
  /\ \E c, d \in Calls :
       /\ Returned(c) /\ calls[c].cause = "decode"
       /\ Returned(d) /\ calls[d].cause = "none"

C14_HandleMonotonic ==
  [][ /\ (model = 0 /\ model' # 0) =>
           \E c \in Calls :
             /\ calls[c].pc = "construct"
             /\ calls[c].fetches = 1 /\ calls[c].constructs = 1
             /\ calls'[c].stores = calls[c].stores + 1
             /\ calls'[c].cause = "none"
             /\ model' = StoredHandle(c)
             /\ tflite
      /\ model # 0 => model' # 0 ]_vars

\* C14 witness: with the handle populated, a loadModel call that overlapped
\* the successful load has failed at the construction and a classifyImage
\* call has failed at the image; the handle is still populated.
C14_Witness ==
  /\ model # 0
  /\ \E c, d \in Calls :
       /\ calls[c].op = "loadModel" /\ calls[c].cause = "construct"
       /\ Returned(d) /\ calls[d].cause = "decode"

\* C15: loadModel called in state Loaded returns the cached handle at once,
\* without waiting, fetching the artifact or constructing a model, and
\* leaves the cached handle unchanged.
C15_LoadModelIdempotent ==
  [][\A c \in Calls :
       ( /\ calls[c].op = "none"
         /\ calls'[c].op = "loadModel"
         /\ model # 0 )
       => /\ calls'[c].pc = "done"
          /\ ~calls'[c].threw
          /\ calls'[c].handle = model
          /\ calls'[c].waits = 0
          /\ calls'[c].fetches = 0
          /\ calls'[c].constructs = 0
          /\ model' = model]_vars

\* C15 witness: a loadModel call made in state Loaded has returned the
\* handle another call stored.
C15_Witness ==
  \E c, d \in Calls :
    /\ c # d
    /\ calls[d].stores = 1
    /\ calls[c].op = "loadModel" /\ calls[c].pc = "done"
    /\ calls[c].sawLoaded /\ calls[c].handle = StoredHandle(d)

\* C16: the runtime check of loadModel is retried exactly once: a call that
\* finds the runtime at its first check starts the fetch without waiting;
\* one that does not waits once; after the wait it starts the fetch if the
\* runtime is there and otherwise fails with runtime-unavailable, having
\* made no fetch; no call waits twice.
C16_RetryExactlyOnce ==
  [][\A c \in Calls :
       /\ calls'[c].waits <= 1
       /\ (calls[c].op = "none" /\ calls'[c].op # "none" /\ model = 0) =>
            IF tflite
            THEN calls'[c].pc = "fetch" /\ calls'[c].waits = 0
            ELSE /\ calls'[c].pc = "wait" /\ calls'[c].waits = 1
                 /\ calls'[c].fetches = 0
       /\ (calls[c].pc = "wait" /\ calls'[c] # calls[c]) =>
            IF tflite
            THEN calls'[c].pc = "fetch" /\ calls'[c].fetches = 1
            ELSE /\ calls'[c].pc \in {"done", "returned"}
                 /\ calls'[c].cause = "runtime"
                 /\ calls'[c].fetches = 0]_vars

\* C16 witness: one call waited and failed with the runtime still absent,
\* and a later call waited and, the runtime having arrived, fetched.
C16_Witness ==
  \E c, d \in Calls :
    /\ calls[c].waits = 1 /\ calls[c].cause = "runtime"
    /\ calls[c].fetches = 0
    /\ calls[d].waits = 1 /\ calls[d].fetches = 1

\* C17: under overlapping classifyImage calls every input tensor is owned
\* by the call that created it: a tensor is disposed only by its own call,
\* and the tensor a call passes to predict is live, never one already
\* disposed.
C17_TensorOwnedByItsCall ==
  \A c \in Calls :
    /\ calls[c].disposedBy \in {0, c}
    /\ calls[c].predicts > 0 => calls[c].predictArg = "live"

\* C17 witness: two calls overlapped in the forward pass; one has disposed
\* its tensor and returned while the tensor of the other is still live.
C17_Witness ==
  \E c, d \in Calls :
    /\ Returned(c) /\ calls[c].disposedBy = c
    /\ calls[d].pc = "data" /\ calls[d].tensor = "live"

\* C18: classifyImage runs ensure-model-loaded, image decode, preprocessing
\* and forward pass in this order: the image is awaited and predict invoked
\* only with the handle populated, predict only after the image settled, a
\* call whose load failed has awaited no image and made no forward pass,
\* and no call makes more than one forward pass.
C18_StepsInOrder ==
  [][\A c \in Calls :
       /\ calls'[c].predicts <= 1
       /\ calls'[c].decodes <= 1
       /\ calls'[c].predicts > calls[c].predicts =>
            model # 0 /\ calls[c].pc = "decode" /\ calls[c].decodes = 1
       /\ calls'[c].decodes > calls[c].decodes =>
            model' # 0 /\ calls[c].predicts = 0
       /\ calls'[c].cause \in LoadFailures =>
            calls'[c].decodes = 0 /\ calls'[c].predicts = 0]_vars

\* C18 witness: one classifyImage call has returned after its load failed,
\* and another has loaded the model, awaited the image, made its forward
\* pass and returned its result.
C18_Witness ==
  \E c, d \in Calls :
    /\ Returned(c) /\ calls[c].cause \in LoadFailures
    /\ Returned(d) /\ calls[d].cause = "none"
    /\ calls[d].stores = 1 /\ calls[d].decodes = 1 /\ calls[d].predicts = 1

\* C19: every classifyImage call eventually returns a result, provided
\* each external step it suspends on eventually completes or fails.
C19_ClassifyEventuallyReturns ==
  \A c \in Calls :
    (calls[c].op = "handleCapture") ~> (Returned(c) /\ calls[c].result # Null)

\* C19 witness: a call that went through every suspension point (retry
\* wait, fetch, read of the body, construction, image, output) has returned
\* its result.
C19_Witness ==
  \E c \in Calls :
    /\ Returned(c) /\ calls[c].cause = "none"
    /\ calls[c].waits = 1 /\ calls[c].stores = 1 /\ calls[c].predicts = 1

====
